---------------------------- MODULE Spec2Model ----------------------------
(***************************************************************************)
(* Brand budget planner: the campaign status machine and the spend ledger. *)
(*                                                                         *)
(* The store holds Brand rows, Campaign rows and the AdSpend log.  Money   *)
(* is counted in whole currency units (the Decimal fields keep exact       *)
(* fixed-point values, so integer arithmetic is the same arithmetic).      *)
(* The clock `now` stands for django.utils.timezone.now(): a calendar day  *)
(* number (day 0 is a monday) and a minute of that day.                    *)
(***************************************************************************)
EXTENDS Integers, Sequences, FiniteSets, TLC

VARIABLES brands, campaigns, adspends, now, ret, procs

vars == <<brands, campaigns, adspends, now, ret, procs>>
store == <<brands, campaigns, adspends>>

---------------------------------------------------------------------------
(* Bounds of the model, and the rows of the store it runs on.             *)

\* the AdSpend log holds at most MaxSpends rows
MaxSpends == 2
\* the clock stops at day MaxDate
MaxDate == 2

\* two brands; campaigns 1 and 2 belong to brand 1, campaign 3 to brand 2
BrandIds == {1, 2}
CampaignIds == {1, 2, 3}
\* an id no Campaign row has
MissingCampaignId == 1 + Cardinality(CampaignIds)
\* the amounts record_ad_spend is called with
Amounts == {-1, 0, 2}

---------------------------------------------------------------------------
(* choices.py                                                              *)

ACTIVE == "active"
PAUSED == "paused"
BUDGET_EXCEEDED == "budget_exceeded"
DAYPARTING_PAUSED == "dayparting_paused"
INACTIVE == "inactive"
CampaignStatus == {ACTIVE, PAUSED, BUDGET_EXCEEDED, DAYPARTING_PAUSED, INACTIVE}

---------------------------------------------------------------------------
(* The clock and its formatting.                                           *)
(* A "HH:MM" string is the sequence of its characters; a digit is its      *)
(* value and ':' is 10 (in ASCII ':' sorts just above '9'), so that the    *)
(* lexical order of the strings is the lexical order of the sequences.     *)

Weekdays == <<"monday", "tuesday", "wednesday", "thursday", "friday", "saturday", "sunday">>

\* now.strftime("%A").lower()
CurrentDay(t) == Weekdays[(t.date % 7) + 1]

\* the string "HH:MM" of hour h and minute m, zero padded
HHMM(h, m) == <<h \div 10, h % 10, 10, m \div 10, m % 10>>

\* now.strftime("%H:%M")
CurrentTime(t) == HHMM(t.minute \div 60, t.minute % 60)

\* Python's str <= str
RECURSIVE StrLeq(_, _)
StrLeq(a, b) ==
    IF a = <<>> THEN TRUE
    ELSE IF b = <<>> THEN FALSE
    ELSE IF Head(a) < Head(b) THEN TRUE
    ELSE IF Head(a) > Head(b) THEN FALSE
    ELSE StrLeq(Tail(a), Tail(b))

\* timezone.now().date()
Today(t) == t.date

\* timezone.now().replace(day=1).date(): the first day of the month of day
\* t.date, in a calendar whose months have two days (days 0 and 1, 2 and 3)
CurrentMonth(t) == t.date - (t.date % 2)

---------------------------------------------------------------------------
(* models.py: Brand                                                        *)

\* the remaining daily budget without the max(0, ...)
daily_budget_remaining_unclamped(brand) ==
    brand.daily_budget - brand.daily_spend

daily_budget_remaining(brand) ==
    IF brand.daily_budget - brand.daily_spend > 0
    THEN brand.daily_budget - brand.daily_spend ELSE 0

monthly_budget_remaining(brand) ==
    IF brand.monthly_budget - brand.monthly_spend > 0
    THEN brand.monthly_budget - brand.monthly_spend ELSE 0

daily_budget_exceeded(brand) == brand.daily_spend >= brand.daily_budget

monthly_budget_exceeded(brand) == brand.monthly_spend >= brand.monthly_budget

---------------------------------------------------------------------------
(* models.py: Campaign                                                     *)
(* A predicate that can raise returns "True", "False" or the name of the   *)
(* exception.                                                              *)

\* the window test with the end excluded: start <= current_time < end
WindowContains_end_excluded(window, current_time) ==
    IF "start" \notin DOMAIN window THEN "KeyError"
    ELSE IF ~StrLeq(window.start, current_time) THEN "False"
    ELSE IF "end" \notin DOMAIN window THEN "KeyError"
    ELSE IF ~StrLeq(window.end, current_time) THEN "True"
    ELSE "False"

\* window["start"] <= current_time <= window["end"]: the keys are read left
\* to right and the chained comparison stops at the first false link
WindowContains(window, current_time) ==
    IF "start" \notin DOMAIN window THEN "KeyError"
    ELSE IF ~StrLeq(window.start, current_time) THEN "False"
    ELSE IF "end" \notin DOMAIN window THEN "KeyError"
    ELSE IF StrLeq(current_time, window.end) THEN "True"
    ELSE "False"

\* for window in day_schedule: if ...: return True;  return False
RECURSIVE ScanWindows(_, _)
ScanWindows(day_schedule, current_time) ==
    IF day_schedule = <<>> THEN "False"
    ELSE LET r == WindowContains(Head(day_schedule), current_time)
         IN  IF r = "False" THEN ScanWindows(Tail(day_schedule), current_time)
             ELSE r

is_within_dayparting_window(campaign, t) ==
    IF ~campaign.dayparting_enabled THEN "True"
    ELSE LET current_day == CurrentDay(t)
             day_schedule ==
                 IF current_day \in DOMAIN campaign.dayparting_schedule
                 THEN campaign.dayparting_schedule[current_day]
                 ELSE <<>>
         IN  ScanWindows(day_schedule, CurrentTime(t))

\* should_be_active with only INACTIVE excluded in its last line
should_be_active_unless_inactive(bs, cs, t, c) ==
    LET campaign == cs[c]
        brand == bs[campaign.brand]
        within == is_within_dayparting_window(campaign, t)
    IN  IF ~brand.is_active THEN "False"
        ELSE IF daily_budget_exceeded(brand) \/ monthly_budget_exceeded(brand)
        THEN "False"
        ELSE IF campaign.dayparting_enabled /\ within # "True"
        THEN (IF within = "False" THEN "False" ELSE within)
        ELSE IF campaign.status # INACTIVE THEN "True"
        ELSE "False"

should_be_active(bs, cs, t, c) ==
    LET campaign == cs[c]
        brand == bs[campaign.brand]
        within == is_within_dayparting_window(campaign, t)
    IN  IF ~brand.is_active THEN "False"
        ELSE IF daily_budget_exceeded(brand) \/ monthly_budget_exceeded(brand)
        THEN "False"
        ELSE IF campaign.dayparting_enabled /\ within # "True"
        THEN (IF within = "False" THEN "False" ELSE within)
        ELSE IF campaign.status \notin {INACTIVE, PAUSED} THEN "True"
        ELSE "False"

\* update_status with the budget test ahead of the brand test
update_status_budget_first(bs, cs, t, c) ==
    LET campaign == cs[c]
        brand == bs[campaign.brand]
        within == is_within_dayparting_window(campaign, t)
    IN  IF daily_budget_exceeded(brand) \/ monthly_budget_exceeded(brand)
        THEN [status |-> BUDGET_EXCEEDED, raised |-> "none"]
        ELSE IF ~brand.is_active
        THEN [status |-> INACTIVE, raised |-> "none"]
        ELSE IF campaign.dayparting_enabled /\ within # "True"
        THEN (IF within = "False"
              THEN [status |-> DAYPARTING_PAUSED, raised |-> "none"]
              ELSE [status |-> campaign.status, raised |-> within])
        ELSE IF campaign.status \in {BUDGET_EXCEEDED, DAYPARTING_PAUSED}
        THEN [status |-> ACTIVE, raised |-> "none"]
        ELSE [status |-> campaign.status, raised |-> "none"]

\* update_status resuming in two steps: a cleared BUDGET_EXCEEDED goes to
\* DAYPARTING_PAUSED and only a cleared DAYPARTING_PAUSED goes to ACTIVE
update_status_two_step_resume(bs, cs, t, c) ==
    LET campaign == cs[c]
        brand == bs[campaign.brand]
        within == is_within_dayparting_window(campaign, t)
    IN  IF ~brand.is_active
        THEN [status |-> INACTIVE, raised |-> "none"]
        ELSE IF daily_budget_exceeded(brand) \/ monthly_budget_exceeded(brand)
        THEN [status |-> BUDGET_EXCEEDED, raised |-> "none"]
        ELSE IF campaign.dayparting_enabled /\ within # "True"
        THEN (IF within = "False"
              THEN [status |-> DAYPARTING_PAUSED, raised |-> "none"]
              ELSE [status |-> campaign.status, raised |-> within])
        ELSE IF campaign.status = BUDGET_EXCEEDED
        THEN [status |-> DAYPARTING_PAUSED, raised |-> "none"]
        ELSE IF campaign.status = DAYPARTING_PAUSED
        THEN [status |-> ACTIVE, raised |-> "none"]
        ELSE [status |-> campaign.status, raised |-> "none"]

\* update_status resuming from INACTIVE as it does from the two automatic
\* pauses
update_status_resume_inactive(bs, cs, t, c) ==
    LET campaign == cs[c]
        brand == bs[campaign.brand]
        within == is_within_dayparting_window(campaign, t)
    IN  IF ~brand.is_active
        THEN [status |-> INACTIVE, raised |-> "none"]
        ELSE IF daily_budget_exceeded(brand) \/ monthly_budget_exceeded(brand)
        THEN [status |-> BUDGET_EXCEEDED, raised |-> "none"]
        ELSE IF campaign.dayparting_enabled /\ within # "True"
        THEN (IF within = "False"
              THEN [status |-> DAYPARTING_PAUSED, raised |-> "none"]
              ELSE [status |-> campaign.status, raised |-> within])
        ELSE IF campaign.status \in {BUDGET_EXCEEDED, DAYPARTING_PAUSED, INACTIVE}
        THEN [status |-> ACTIVE, raised |-> "none"]
        ELSE [status |-> campaign.status, raised |-> "none"]

\* The status update_status() leaves on campaign c and the exception it
\* raises, if any (an exception leaves the status as it was: the save is
\* the last statement).
update_status(bs, cs, t, c) ==
    LET campaign == cs[c]
        brand == bs[campaign.brand]
        within == is_within_dayparting_window(campaign, t)
    IN  IF ~brand.is_active
        THEN [status |-> INACTIVE, raised |-> "none"]
        ELSE IF daily_budget_exceeded(brand) \/ monthly_budget_exceeded(brand)
        THEN [status |-> BUDGET_EXCEEDED, raised |-> "none"]
        ELSE IF campaign.dayparting_enabled /\ within # "True"
        THEN (IF within = "False"
              THEN [status |-> DAYPARTING_PAUSED, raised |-> "none"]
              ELSE [status |-> campaign.status, raised |-> within])
        ELSE IF campaign.status \in {BUDGET_EXCEEDED, DAYPARTING_PAUSED}
        THEN [status |-> ACTIVE, raised |-> "none"]
        ELSE [status |-> campaign.status, raised |-> "none"]

---------------------------------------------------------------------------
(* models.py: AdSpend                                                      *)

\* .aggregate(total=Sum("amount"))["total"] or Decimal("0")
RECURSIVE SumAmount(_)
SumAmount(spends) ==
    IF spends = <<>> THEN 0 ELSE Head(spends).amount + SumAmount(Tail(spends))

\* AdSpend.objects.filter(campaign=c, timestamp__date=today)
CampaignDailyTotal(spends, c, t) ==
    SumAmount(SelectSeq(spends, LAMBDA e : e.campaign = c /\ e.date = Today(t)))

\* AdSpend.objects.filter(campaign=c, timestamp__date__gte=current_month)
CampaignMonthlyTotal(spends, c, t) ==
    SumAmount(SelectSeq(spends, LAMBDA e : e.campaign = c /\ e.date >= CurrentMonth(t)))

\* AdSpend.objects.filter(campaign__brand=b, timestamp__date=today)
BrandDailyTotal(cs, spends, b, t) ==
    SumAmount(SelectSeq(spends, LAMBDA e : cs[e.campaign].brand = b /\ e.date = Today(t)))

\* AdSpend.objects.filter(campaign__brand=b, timestamp__date__gte=current_month)
BrandMonthlyTotal(cs, spends, b, t) ==
    SumAmount(SelectSeq(spends, LAMBDA e : cs[e.campaign].brand = b /\ e.date >= CurrentMonth(t)))

\* The Brand and Campaign rows after update_spend_totals() of a spend of
\* campaign c, the log being `spends`.
\* update_spend_totals with the brand's totals taken from the rows of the
\* one campaign
update_spend_totals_one_campaign(bs, cs, spends, t, c) ==
    LET b == cs[c].brand
    IN  [campaigns |-> [cs EXCEPT ![c].daily_spend = CampaignDailyTotal(spends, c, t),
                                  ![c].monthly_spend = CampaignMonthlyTotal(spends, c, t)],
         brands |-> [bs EXCEPT ![b].daily_spend = CampaignDailyTotal(spends, c, t),
                               ![b].monthly_spend = CampaignMonthlyTotal(spends, c, t)]]

update_spend_totals(bs, cs, spends, t, c) ==
    LET b == cs[c].brand
    IN  [campaigns |-> [cs EXCEPT ![c].daily_spend = CampaignDailyTotal(spends, c, t),
                                  ![c].monthly_spend = CampaignMonthlyTotal(spends, c, t)],
         brands |-> [bs EXCEPT ![b].daily_spend = BrandDailyTotal(cs, spends, b, t),
                               ![b].monthly_spend = BrandMonthlyTotal(cs, spends, b, t)]]

\* AdSpend.save() keeping one row per campaign and day: the new amount
\* replaces that of the row the campaign already has for today
AdSpend_save_upsert(bs, cs, spends, t, c, amount) ==
    LET same == {i \in 1..Len(spends) :
                    spends[i].campaign = c /\ spends[i].date = Today(t)}
        log == IF same = {}
               THEN Append(spends, [campaign |-> c, amount |-> amount, date |-> Today(t)])
               ELSE [i \in 1..Len(spends) |->
                        IF i \in same THEN [spends[i] EXCEPT !.amount = amount]
                        ELSE spends[i]]
        totals == update_spend_totals(bs, cs, log, t, c)
    IN  [brands |-> totals.brands, campaigns |-> totals.campaigns, adspends |-> log]

AdSpend_save(bs, cs, spends, t, c, amount) ==
    LET log == Append(spends, [campaign |-> c, amount |-> amount, date |-> Today(t)])
        totals == update_spend_totals(bs, cs, log, t, c)
    IN  [brands |-> totals.brands, campaigns |-> totals.campaigns, adspends |-> log]

---------------------------------------------------------------------------
(* utils.py                                                                *)

\* Campaign.Meta.ordering = ["brand__name", "name"]: names sort as the ids
Before(cs, x, y) ==
    \/ cs[x].brand < cs[y].brand
    \/ cs[x].brand = cs[y].brand /\ x <= y

RECURSIVE OrderBy(_, _)
OrderBy(S, cs) ==
    IF S = {} THEN <<>>
    ELSE LET m == CHOOSE x \in S : \A y \in S : Before(cs, x, y)
         IN  <<m>> \o OrderBy(S \ {m}, cs)

\* Campaign.objects.all()
AllCampaigns(cs) == OrderBy(DOMAIN cs, cs)

\* record_ad_spend with the status evaluated on the brand as it was before
\* the new row was counted
record_ad_spend_stale_brand(bs, cs, spends, t, campaign_id, amount) ==
    IF campaign_id \notin DOMAIN cs
    THEN [brands |-> bs, campaigns |-> cs, adspends |-> spends, raised |-> "ValueError"]
    ELSE LET saved == AdSpend_save(bs, cs, spends, t, campaign_id, amount)
             r == update_status(bs, saved.campaigns, t, campaign_id)
         IN  [brands |-> saved.brands,
              campaigns |-> [saved.campaigns EXCEPT ![campaign_id].status = r.status],
              adspends |-> saved.adspends,
              raised |-> r.raised]

\* record_ad_spend returning quietly when the campaign is not found
record_ad_spend_quiet_miss(bs, cs, spends, t, campaign_id, amount) ==
    IF campaign_id \notin DOMAIN cs
    THEN [brands |-> bs, campaigns |-> cs, adspends |-> spends, raised |-> "none"]
    ELSE LET saved == AdSpend_save(bs, cs, spends, t, campaign_id, amount)
             r == update_status(saved.brands, saved.campaigns, t, campaign_id)
         IN  [brands |-> saved.brands,
              campaigns |-> [saved.campaigns EXCEPT ![campaign_id].status = r.status],
              adspends |-> saved.adspends,
              raised |-> r.raised]

\* record_ad_spend evaluating every campaign of the brand, not only the
\* one that spent
record_ad_spend_evaluating_siblings(bs, cs, spends, t, campaign_id, amount) ==
    IF campaign_id \notin DOMAIN cs
    THEN [brands |-> bs, campaigns |-> cs, adspends |-> spends, raised |-> "ValueError"]
    ELSE LET saved == AdSpend_save(bs, cs, spends, t, campaign_id, amount)
             r == update_status(saved.brands, saved.campaigns, t, campaign_id)
         IN  [brands |-> saved.brands,
              campaigns |-> [d \in DOMAIN cs |->
                                IF cs[d].brand = cs[campaign_id].brand
                                THEN [saved.campaigns[d] EXCEPT !.status =
                                         update_status(saved.brands, saved.campaigns, t, d).status]
                                ELSE saved.campaigns[d]],
              adspends |-> saved.adspends,
              raised |-> r.raised]

\* The store record_ad_spend(campaign_id, amount) leaves and what it raises.
record_ad_spend(bs, cs, spends, t, campaign_id, amount) ==
    IF campaign_id \notin DOMAIN cs
    THEN [brands |-> bs, campaigns |-> cs, adspends |-> spends, raised |-> "ValueError"]
    ELSE LET saved == AdSpend_save(bs, cs, spends, t, campaign_id, amount)
             r == update_status(saved.brands, saved.campaigns, t, campaign_id)
         IN  [brands |-> saved.brands,
              campaigns |-> [saved.campaigns EXCEPT ![campaign_id].status = r.status],
              adspends |-> saved.adspends,
              raised |-> r.raised]

---------------------------------------------------------------------------
(* tasks.py                                                                *)

NoTally == [activated |-> 0, budget_paused |-> 0, dayparting_paused |-> 0, deactivated |-> 0]

\* The loop of check_and_update_campaign_statuses over the campaigns left
\* in `order`.  The tally's branch reads Campaign.STATUS_ACTIVE, which the
\* Campaign class does not define: the first campaign whose status changed
\* is saved and then the task raises AttributeError.
RECURSIVE StatusLoop(_, _, _, _)
StatusLoop(bs, cs, t, order) ==
    IF order = <<>>
    THEN [campaigns |-> cs, raised |-> "none", tally |-> NoTally]
    ELSE LET c == Head(order)
             old_status == cs[c].status
             r == update_status(bs, cs, t, c)
             saved == [cs EXCEPT ![c].status = r.status]
         IN  IF r.raised # "none"
             THEN [campaigns |-> cs, raised |-> r.raised, tally |-> NoTally]
             ELSE IF old_status # r.status
             THEN [campaigns |-> saved, raised |-> "AttributeError", tally |-> NoTally]
             ELSE StatusLoop(bs, saved, t, Tail(order))

check_and_update_campaign_statuses(bs, cs, t) ==
    StatusLoop(bs, cs, t, AllCampaigns(cs))

\* recalculate_spend_totals: every campaign, then every brand
recalculate_spend_totals(bs, cs, spends, t) ==
    [campaigns |-> [c \in DOMAIN cs |->
                      [cs[c] EXCEPT !.daily_spend = CampaignDailyTotal(spends, c, t),
                                    !.monthly_spend = CampaignMonthlyTotal(spends, c, t)]],
     brands |-> [b \in DOMAIN bs |->
                      [bs[b] EXCEPT !.daily_spend = BrandDailyTotal(cs, spends, b, t),
                                    !.monthly_spend = BrandMonthlyTotal(cs, spends, b, t)]]]

\* Brand.objects.filter(is_active=True), by Brand.Meta.ordering = ["name"]:
\* names sort as the ids
RECURSIVE ActiveBrands(_, _)
ActiveBrands(bs, S) ==
    IF S = {} THEN <<>>
    ELSE LET m == CHOOSE x \in S : \A y \in S : x <= y
         IN  (IF bs[m].is_active THEN <<m>> ELSE <<>>) \o ActiveBrands(bs, S \ {m})

\* float(spend / budget * 100) if budget > 0 else 0, kept as the exact
\* fraction <<numerator, denominator>>
PercentUsed(spend, budget) ==
    IF budget > 0 THEN <<spend * 100, budget>> ELSE <<0, 1>>

\* one loop of monitor_budget_limits over the brands left in `order`;
\* spend >= budget * Decimal("0.9") is 10 * spend >= 9 * budget
RECURSIVE AlertLoop(_, _, _, _, _)
AlertLoop(bs, order, type, spend, budget) ==
    IF order = <<>> THEN <<>>
    ELSE LET b == Head(order)
             rest == AlertLoop(bs, Tail(order), type, spend, budget)
         IN  IF 10 * bs[b][spend] >= 9 * bs[b][budget]
             THEN <<[type |-> type, brand |-> b,
                     percent_used |-> PercentUsed(bs[b][spend], bs[b][budget]),
                     spend |-> bs[b][spend], budget |-> bs[b][budget]]>> \o rest
             ELSE rest

\* monitor_budget_limits scanning every brand, active or not
monitor_budget_limits_all_brands(bs) ==
    LET order == ActiveBrands([b \in DOMAIN bs |-> [bs[b] EXCEPT !.is_active = TRUE]],
                              DOMAIN bs)
    IN  AlertLoop(bs, order, "daily_budget_warning", "daily_spend", "daily_budget")
        \o AlertLoop(bs, order, "monthly_budget_warning", "monthly_spend", "monthly_budget")

\* monitor_budget_limits(): the list of alerts it returns
monitor_budget_limits(bs) ==
    LET order == ActiveBrands(bs, DOMAIN bs)
    IN  AlertLoop(bs, order, "daily_budget_warning", "daily_spend", "daily_budget")
        \o AlertLoop(bs, order, "monthly_budget_warning", "monthly_spend", "monthly_budget")

---------------------------------------------------------------------------
(* commands/reset_monthly_budgets.py                                       *)

\* The loop of Command.handle over the campaigns left in `order`; the
\* campaign's brand is read from the store at each update_status().
RECURSIVE ReactivateLoop(_, _, _, _, _, _)
ReactivateLoop(bs, cs, t, order, dry_run, reactivated_count) ==
    IF order = <<>>
    THEN [campaigns |-> cs, raised |-> "none", reactivated_count |-> reactivated_count]
    ELSE LET c == Head(order)
             old_status == cs[c].status
         IN  IF ~dry_run
             THEN LET r == update_status(bs, cs, t, c)
                      saved == [cs EXCEPT ![c].status = r.status]
                  IN  IF r.raised # "none"
                      THEN [campaigns |-> cs, raised |-> r.raised,
                            reactivated_count |-> reactivated_count]
                      ELSE ReactivateLoop(bs, saved, t, Tail(order), dry_run,
                               IF old_status = BUDGET_EXCEEDED /\ r.status = ACTIVE
                               THEN reactivated_count + 1 ELSE reactivated_count)
             ELSE LET would == IF old_status = BUDGET_EXCEEDED
                               THEN should_be_active(bs, cs, t, c) ELSE "False"
                  IN  IF would \notin {"True", "False"}
                      THEN [campaigns |-> cs, raised |-> would,
                            reactivated_count |-> reactivated_count]
                      ELSE ReactivateLoop(bs, cs, t, Tail(order), dry_run,
                               IF would = "True"
                               THEN reactivated_count + 1 ELSE reactivated_count)

\* the monthly command writing even under --dry-run
reset_monthly_budgets_always_writes(bs, cs, t, dry_run) ==
    LET bs0 == [b \in DOMAIN bs |-> [bs[b] EXCEPT !.monthly_spend = 0]]
        cs0 == [c \in DOMAIN cs |-> [cs[c] EXCEPT !.monthly_spend = 0]]
        loop == ReactivateLoop(bs0, cs0, t, AllCampaigns(cs0), FALSE, 0)
    IN  [brands |-> bs0, campaigns |-> loop.campaigns, raised |-> loop.raised,
         reactivated_count |-> loop.reactivated_count]

\* the monthly command zeroing the brands but not the campaigns
reset_monthly_budgets_brands_only(bs, cs, t, dry_run) ==
    LET bs0 == IF dry_run THEN bs
               ELSE [b \in DOMAIN bs |-> [bs[b] EXCEPT !.monthly_spend = 0]]
        loop == ReactivateLoop(bs0, cs, t, AllCampaigns(cs), dry_run, 0)
    IN  [brands |-> bs0, campaigns |-> loop.campaigns, raised |-> loop.raised,
         reactivated_count |-> loop.reactivated_count]

\* Command.handle(dry_run) of reset_monthly_budgets
reset_monthly_budgets(bs, cs, t, dry_run) ==
    LET bs0 == IF dry_run THEN bs
               ELSE [b \in DOMAIN bs |-> [bs[b] EXCEPT !.monthly_spend = 0]]
        cs0 == IF dry_run THEN cs
               ELSE [c \in DOMAIN cs |-> [cs[c] EXCEPT !.monthly_spend = 0]]
        loop == ReactivateLoop(bs0, cs0, t, AllCampaigns(cs0), dry_run, 0)
    IN  [brands |-> bs0, campaigns |-> loop.campaigns, raised |-> loop.raised,
         reactivated_count |-> loop.reactivated_count]

\* Command.handle(dry_run) of reset_daily_budgets: the monthly command on
\* daily_spend
reset_daily_budgets(bs, cs, t, dry_run) ==
    LET bs0 == IF dry_run THEN bs
               ELSE [b \in DOMAIN bs |-> [bs[b] EXCEPT !.daily_spend = 0]]
        cs0 == IF dry_run THEN cs
               ELSE [c \in DOMAIN cs |-> [cs[c] EXCEPT !.daily_spend = 0]]
        loop == ReactivateLoop(bs0, cs0, t, AllCampaigns(cs0), dry_run, 0)
    IN  [brands |-> bs0, campaigns |-> loop.campaigns, raised |-> loop.raised,
         reactivated_count |-> loop.reactivated_count]

---------------------------------------------------------------------------
(* The state machine.  `ret` is what the last operation returned or        *)
(* raised; `procs` are the workers of the concurrent specification.        *)

NoRet == [op |-> "none", dry_run |-> FALSE, raised |-> "none",
          reactivated_count |-> 0, tally |-> NoTally, alerts |-> <<>>,
          campaign |-> 0, value |-> "none"]

EmptySchedule == [d \in {} |-> <<>>]
\* {"monday": [{"start": "09:00", "end": "17:00"}], "wednesday": [the same]}
OfficeHours == [d \in {"monday", "wednesday"} |->
                   <<[start |-> HHMM(9, 0), end |-> HHMM(17, 0)]>>]

\* 09:00, the minute of the day the clock of Spec shows
NineOClock == 9 * 60

InitBrands ==
    [b \in BrandIds |->
        [is_active |-> TRUE,
         daily_budget |-> IF b = 1 THEN 3 ELSE 0, monthly_budget |-> 4,
         daily_spend |-> 0, monthly_spend |-> 0]]

InitCampaigns ==
    [c \in CampaignIds |->
        [brand |-> IF c = 3 THEN 2 ELSE 1, status |-> ACTIVE,
         daily_spend |-> 0, monthly_spend |-> 0,
         dayparting_enabled |-> (c = 1),
         dayparting_schedule |-> IF c = 1 THEN OfficeHours ELSE EmptySchedule]]

IdleProcs == <<>>

\* The store as the operator left it: nothing spent yet, campaign 2 running
\* or paused by hand, brand 2 (whose daily budget is 0) switched on or off.
Init ==
    /\ \E is_active \in BOOLEAN :
           brands = [InitBrands EXCEPT ![2].is_active = is_active]
    /\ \E status \in {ACTIVE, PAUSED} :
           campaigns = [InitCampaigns EXCEPT ![2].status = status]
    /\ adspends = <<>>
    /\ now = [date |-> 0, minute |-> NineOClock]
    /\ ret = NoRet
    /\ procs = IdleProcs

\* utils.record_ad_spend(campaign_id, amount)
RecordAdSpend(campaign_id, amount) ==
    /\ campaign_id \in DOMAIN campaigns => Len(adspends) < MaxSpends
    /\ LET r == record_ad_spend(brands, campaigns, adspends, now, campaign_id, amount)
       IN  /\ brands' = r.brands
           /\ campaigns' = r.campaigns
           /\ adspends' = r.adspends
           /\ ret' = [NoRet EXCEPT !.op = "record_ad_spend", !.raised = r.raised]
    /\ UNCHANGED <<now, procs>>

\* Campaign.update_status() on one campaign
EvaluateCampaign(c) ==
    /\ LET r == update_status(brands, campaigns, now, c)
       IN  /\ campaigns' = [campaigns EXCEPT ![c].status = r.status]
           /\ ret' = [NoRet EXCEPT !.op = "update_status", !.raised = r.raised]
    /\ UNCHANGED <<brands, adspends, now, procs>>

\* tasks.check_and_update_campaign_statuses()
StatusSweep ==
    /\ LET r == check_and_update_campaign_statuses(brands, campaigns, now)
       IN  /\ campaigns' = r.campaigns
           /\ ret' = [NoRet EXCEPT !.op = "check_and_update_campaign_statuses",
                                   !.raised = r.raised, !.tally = r.tally]
    /\ UNCHANGED <<brands, adspends, now, procs>>

\* tasks.recalculate_spend_totals()
TotalsSweep ==
    /\ LET r == recalculate_spend_totals(brands, campaigns, adspends, now)
       IN  /\ brands' = r.brands
           /\ campaigns' = r.campaigns
    /\ ret' = [NoRet EXCEPT !.op = "recalculate_spend_totals"]
    /\ UNCHANGED <<adspends, now, procs>>

\* manage.py reset_monthly_budgets [--dry-run]; tasks.reset_monthly_budgets()
\* is the call without the flag
MonthlyReset(dry_run) ==
    /\ LET r == reset_monthly_budgets(brands, campaigns, now, dry_run)
       IN  /\ brands' = r.brands
           /\ campaigns' = r.campaigns
           /\ ret' = [NoRet EXCEPT !.op = "reset_monthly_budgets", !.dry_run = dry_run,
                                   !.raised = r.raised,
                                   !.reactivated_count = r.reactivated_count]
    /\ UNCHANGED <<adspends, now, procs>>

\* manage.py reset_daily_budgets [--dry-run]; tasks.reset_daily_budgets()
DailyReset(dry_run) ==
    /\ LET r == reset_daily_budgets(brands, campaigns, now, dry_run)
       IN  /\ brands' = r.brands
           /\ campaigns' = r.campaigns
           /\ ret' = [NoRet EXCEPT !.op = "reset_daily_budgets", !.dry_run = dry_run,
                                   !.raised = r.raised,
                                   !.reactivated_count = r.reactivated_count]
    /\ UNCHANGED <<adspends, now, procs>>

\* midnight passes
AdvanceDate ==
    /\ now.date < MaxDate
    /\ now' = [now EXCEPT !.date = now.date + 1]
    /\ ret' = NoRet
    /\ UNCHANGED <<brands, campaigns, adspends, procs>>

Next ==
    \/ \E campaign_id \in CampaignIds \cup {MissingCampaignId}, amount \in Amounts :
           RecordAdSpend(campaign_id, amount)
    \/ \E c \in DOMAIN campaigns : EvaluateCampaign(c)
    \/ StatusSweep
    \/ TotalsSweep
    \/ \E dry_run \in BOOLEAN : MonthlyReset(dry_run)
    \/ AdvanceDate

Spec == Init /\ [][Next]_vars

\* tasks.monitor_budget_limits()
AlertScan ==
    /\ ret' = [NoRet EXCEPT !.op = "monitor_budget_limits",
                            !.alerts = monitor_budget_limits(brands)]
    /\ UNCHANGED <<brands, campaigns, adspends, now, procs>>

\* Spec with the daily reset command and the alert scan among the jobs
NextJobs ==
    \/ Next
    \/ \E dry_run \in BOOLEAN : DailyReset(dry_run)
    \/ AlertScan

SpecJobs == Init /\ [][NextJobs]_vars

\* One day of spending: record_ad_spend calls and totals sweeps, the clock
\* standing on any day.
InitDay ==
    /\ brands = InitBrands
    /\ campaigns = InitCampaigns
    /\ adspends = <<>>
    /\ \E date \in 0..MaxDate : now = [date |-> date, minute |-> NineOClock]
    /\ ret = NoRet
    /\ procs = IdleProcs

NextDay ==
    \/ \E campaign_id \in CampaignIds \cup {MissingCampaignId}, amount \in Amounts :
           RecordAdSpend(campaign_id, amount)
    \/ TotalsSweep

SpecDay == InitDay /\ [][NextDay]_vars

\* Evaluation of campaign 1 from every combination of brand activity, budget
\* state, dayparting state and current status, at the minutes around the
\* window boundaries.
SplitShift ==
    [monday |-> <<[start |-> HHMM(8, 0), end |-> HHMM(8, 30)],
                  [start |-> HHMM(9, 0), end |-> HHMM(17, 0)]>>]

\* {"monday": [{"start": "12:00", "end": "17:00"}, {"start": "08:00", "end": "13:00"}]}
Overlapping ==
    [monday |-> <<[start |-> HHMM(12, 0), end |-> HHMM(17, 0)],
                  [start |-> HHMM(8, 0), end |-> HHMM(13, 0)]>>]

Times == {8 * 60 + 59, 9 * 60, 17 * 60, 17 * 60 + 1}

InitEval ==
    /\ \E is_active \in BOOLEAN,
          spend \in {<<0, 0>>, <<3, 3>>, <<0, 4>>, <<4, 4>>} :
           brands = [InitBrands EXCEPT ![1].is_active = is_active,
                                       ![1].daily_spend = spend[1],
                                       ![1].monthly_spend = spend[2]]
    /\ \E status \in CampaignStatus, dayparting_enabled \in BOOLEAN,
          dayparting_schedule \in {EmptySchedule, OfficeHours, SplitShift, Overlapping} :
           campaigns = [InitCampaigns EXCEPT
                            ![1].status = status,
                            ![1].dayparting_enabled = dayparting_enabled,
                            ![1].dayparting_schedule = dayparting_schedule]
    /\ adspends = <<>>
    /\ \E date \in 0..MaxDate, minute \in Times :
           now = [date |-> date, minute |-> minute]
    /\ ret = NoRet
    /\ procs = IdleProcs

\* the clock moves to the next minute of interest
AdvanceMinute ==
    /\ \E minute \in Times :
           /\ minute > now.minute
           /\ \A m \in Times : m > now.minute => minute <= m
           /\ now' = [now EXCEPT !.minute = minute]
    /\ ret' = NoRet
    /\ UNCHANGED <<brands, campaigns, adspends, procs>>

\* Campaign.should_be_active() on one campaign
ShouldBeActive(c) ==
    /\ LET r == should_be_active(brands, campaigns, now, c)
       IN  ret' = [NoRet EXCEPT !.op = "should_be_active", !.campaign = c,
                                !.value = IF r \in {"True", "False"} THEN r ELSE "none",
                                !.raised = IF r \in {"True", "False"} THEN "none" ELSE r]
    /\ UNCHANGED <<brands, campaigns, adspends, now, procs>>

\* Campaign.is_within_dayparting_window() on one campaign
IsWithinDaypartingWindow(c) ==
    /\ LET r == is_within_dayparting_window(campaigns[c], now)
       IN  ret' = [NoRet EXCEPT !.op = "is_within_dayparting_window", !.campaign = c,
                                !.value = IF r \in {"True", "False"} THEN r ELSE "none",
                                !.raised = IF r \in {"True", "False"} THEN "none" ELSE r]
    /\ UNCHANGED <<brands, campaigns, adspends, now, procs>>

NextEval ==
    \/ \E c \in DOMAIN campaigns : EvaluateCampaign(c)
    \/ \E c \in DOMAIN campaigns : ShouldBeActive(c)
    \/ \E c \in DOMAIN campaigns : IsWithinDaypartingWindow(c)
    \/ AdvanceMinute

SpecEval == InitEval /\ [][NextEval]_vars

\* Evaluation of campaign 1 with a dayparting schedule the JSONField
\* accepts but whose monday windows are not {"start", "end"} pairs.
\* {"monday": [{"start": "09:00"}]}
MissingEnd == [monday |-> <<[start |-> HHMM(9, 0)]>>]
\* {"monday": [{"end": "17:00"}]}
MissingStart == [monday |-> <<[end |-> HHMM(17, 0)]>>]
\* {"monday": [{"from": "09:00", "to": "17:00"}]}
UnknownKeys == [monday |-> <<[from |-> HHMM(9, 0), to |-> HHMM(17, 0)]>>]
\* {"monday": [{"start": "09:00", "end": "17:00", "note": "00:00"}]}
ExtraKey == [monday |-> <<[start |-> HHMM(9, 0), end |-> HHMM(17, 0), note |-> HHMM(0, 0)]>>]

InitSchedule ==
    /\ \E is_active \in BOOLEAN :
           brands = [InitBrands EXCEPT ![1].is_active = is_active]
    /\ \E status \in CampaignStatus, dayparting_enabled \in BOOLEAN,
          dayparting_schedule \in {EmptySchedule, MissingEnd, MissingStart,
                                   UnknownKeys, ExtraKey} :
           campaigns = [InitCampaigns EXCEPT
                            ![1].status = status,
                            ![1].dayparting_enabled = dayparting_enabled,
                            ![1].dayparting_schedule = dayparting_schedule]
    /\ adspends = <<>>
    /\ \E date \in 0..MaxDate, minute \in Times :
           now = [date |-> date, minute |-> minute]
    /\ ret = NoRet
    /\ procs = IdleProcs

NextSchedule ==
    \/ \E c \in DOMAIN campaigns : EvaluateCampaign(c)
    \/ StatusSweep
    \/ AdvanceMinute

SpecSchedule == InitSchedule /\ [][NextSchedule]_vars

\* The alert scan on brand 1 with budgets of 0 and 10 and spends on both
\* sides of nine tenths of 10, and on brand 2 switched on or off.
InitAlerts ==
    /\ \E is_active \in BOOLEAN, other_active \in BOOLEAN,
          daily_budget \in {0, 10}, monthly_budget \in {0, 10},
          daily_spend \in {-1, 0, 8, 9, 10}, monthly_spend \in {-1, 0, 8, 9, 11} :
           brands = [InitBrands EXCEPT ![1].is_active = is_active,
                                       ![1].daily_budget = daily_budget,
                                       ![1].monthly_budget = monthly_budget,
                                       ![1].daily_spend = daily_spend,
                                       ![1].monthly_spend = monthly_spend,
                                       ![2].is_active = other_active]
    /\ campaigns = InitCampaigns
    /\ adspends = <<>>
    /\ now = [date |-> 0, minute |-> NineOClock]
    /\ ret = NoRet
    /\ procs = IdleProcs

NextAlerts == AlertScan

SpecAlerts == InitAlerts /\ [][NextAlerts]_vars

\* Brands switched off and on in the admin, between evaluations, sweeps,
\* spend and midnights.
InitBrand ==
    /\ brands = InitBrands
    /\ campaigns = InitCampaigns
    /\ adspends = <<>>
    /\ now = [date |-> 0, minute |-> NineOClock]
    /\ ret = NoRet
    /\ procs = IdleProcs

\* BrandAdmin: the operator saves the brand with is_active changed
SetBrandActive(b, is_active) ==
    /\ brands[b].is_active # is_active
    /\ brands' = [brands EXCEPT ![b].is_active = is_active]
    /\ ret' = NoRet
    /\ UNCHANGED <<campaigns, adspends, now, procs>>

NextBrand ==
    \/ \E b \in DOMAIN brands, is_active \in BOOLEAN : SetBrandActive(b, is_active)
    \/ \E c \in DOMAIN campaigns : EvaluateCampaign(c)
    \/ StatusSweep
    \/ \E campaign_id \in CampaignIds, amount \in Amounts :
           RecordAdSpend(campaign_id, amount)
    \/ AdvanceDate

SpecBrand == InitBrand /\ [][NextBrand]_vars

---------------------------------------------------------------------------
(* Two record_ad_spend calls in two workers.  The database runs every      *)
(* statement on its own (autocommit, no transaction.atomic and no          *)
(* select_for_update in the code), so each query and each save of          *)
(* AdSpend.save() / update_spend_totals() is a step of its own, and a      *)
(* worker keeps what it read in local variables between its steps.         *)

Procs == {1, 2}

\* a worker about to call record_ad_spend(campaign_id, amount)
Worker(campaign_id, amount) ==
    [pc |-> "create", campaign |-> campaign_id, amount |-> amount,
     daily_total |-> 0, monthly_total |-> 0,
     brand_daily_total |-> 0, brand_monthly_total |-> 0,
     status |-> "none", brand |-> <<>>]

InitConc ==
    /\ brands = InitBrands
    /\ campaigns = InitCampaigns
    /\ adspends = <<>>
    /\ now = [date |-> 0, minute |-> NineOClock]
    /\ ret = NoRet
    /\ procs \in [Procs -> {Worker(c, a) : c \in {1, 2}, a \in {1, 2}}]

\* super().save(): the INSERT
InsertRow(p) ==
    /\ procs[p].pc = "create"
    /\ adspends' = Append(adspends, [campaign |-> procs[p].campaign,
                                      amount |-> procs[p].amount,
                                      date |-> Today(now)])
    /\ procs' = [procs EXCEPT ![p].pc = "daily_total"]
    /\ UNCHANGED <<brands, campaigns, now, ret>>

ReadCampaignDaily(p) ==
    /\ procs[p].pc = "daily_total"
    /\ procs' = [procs EXCEPT
                    ![p].daily_total = CampaignDailyTotal(adspends, procs[p].campaign, now),
                    ![p].pc = "monthly_total"]
    /\ UNCHANGED <<brands, campaigns, adspends, now, ret>>

ReadCampaignMonthly(p) ==
    /\ procs[p].pc = "monthly_total"
    /\ procs' = [procs EXCEPT
                    ![p].monthly_total = CampaignMonthlyTotal(adspends, procs[p].campaign, now),
                    ![p].pc = "campaign_save"]
    /\ UNCHANGED <<brands, campaigns, adspends, now, ret>>

\* self.campaign.save(update_fields=["daily_spend", "monthly_spend", ...])
SaveCampaign(p) ==
    /\ procs[p].pc = "campaign_save"
    /\ campaigns' = [campaigns EXCEPT
                        ![procs[p].campaign].daily_spend = procs[p].daily_total,
                        ![procs[p].campaign].monthly_spend = procs[p].monthly_total]
    /\ procs' = [procs EXCEPT ![p].pc = "brand_daily_total"]
    /\ UNCHANGED <<brands, adspends, now, ret>>

ReadBrandDaily(p) ==
    /\ procs[p].pc = "brand_daily_total"
    /\ procs' = [procs EXCEPT
                    ![p].brand_daily_total =
                        BrandDailyTotal(campaigns, adspends, campaigns[procs[p].campaign].brand, now),
                    ![p].pc = "brand_monthly_total"]
    /\ UNCHANGED <<brands, campaigns, adspends, now, ret>>

ReadBrandMonthly(p) ==
    /\ procs[p].pc = "brand_monthly_total"
    /\ procs' = [procs EXCEPT
                    ![p].brand_monthly_total =
                        BrandMonthlyTotal(campaigns, adspends, campaigns[procs[p].campaign].brand, now),
                    ![p].pc = "brand_save"]
    /\ UNCHANGED <<brands, campaigns, adspends, now, ret>>

\* self.campaign.brand.save(update_fields=["daily_spend", "monthly_spend", ...])
SaveBrand(p) ==
    /\ procs[p].pc = "brand_save"
    /\ brands' = [brands EXCEPT
                     ![campaigns[procs[p].campaign].brand].daily_spend = procs[p].brand_daily_total,
                     ![campaigns[procs[p].campaign].brand].monthly_spend = procs[p].brand_monthly_total]
    /\ procs' = [procs EXCEPT ![p].pc = "refresh_from_db"]
    /\ UNCHANGED <<campaigns, adspends, now, ret>>

\* campaign.refresh_from_db(): the SELECT of the Campaign row; of what it
\* loads only the status is used later (the worker keeps the row's other
\* fields, which no step of SpecConc changes, and drops the cached brand)
RefreshFromDb(p) ==
    /\ procs[p].pc = "refresh_from_db"
    /\ procs' = [procs EXCEPT ![p].status = campaigns[procs[p].campaign].status,
                              ![p].pc = "brand"]
    /\ UNCHANGED <<brands, campaigns, adspends, now, ret>>

\* update_status(): self.brand, the SELECT of the Brand row
ReadBrand(p) ==
    /\ procs[p].pc = "brand"
    /\ procs' = [procs EXCEPT ![p].brand = brands[campaigns[procs[p].campaign].brand],
                              ![p].pc = "update_status"]
    /\ UNCHANGED <<brands, campaigns, adspends, now, ret>>

\* update_status(): the status decided on the rows the worker read, then
\* self.save(update_fields=["status", "updated_at"]); return spend
SaveStatus(p) ==
    /\ procs[p].pc = "update_status"
    /\ LET c == procs[p].campaign
           bs == [brands EXCEPT ![campaigns[c].brand] = procs[p].brand]
           cs == [campaigns EXCEPT ![c].status = procs[p].status]
       IN  campaigns' = [campaigns EXCEPT ![c].status = update_status(bs, cs, now, c).status]
    /\ procs' = [procs EXCEPT ![p].pc = "done"]
    /\ UNCHANGED <<brands, adspends, now, ret>>

NextConc ==
    \E p \in Procs :
        \/ InsertRow(p)
        \/ ReadCampaignDaily(p)
        \/ ReadCampaignMonthly(p)
        \/ SaveCampaign(p)
        \/ ReadBrandDaily(p)
        \/ ReadBrandMonthly(p)
        \/ SaveBrand(p)
        \/ RefreshFromDb(p)
        \/ ReadBrand(p)
        \/ SaveStatus(p)

SpecConc == InitConc /\ [][NextConc]_vars

---------------------------------------------------------------------------
(* Claims checked under Spec.                                              *)

\* the campaign of the newest AdSpend row
LastCampaign == adspends[Len(adspends)].campaign

\* C2: once a campaign is PAUSED it stays PAUSED under every automatic
\* operation (Spec has no step that edits a status by hand).
C2_PausedIsNeverCleared ==
    [][\A c \in DOMAIN campaigns :
          campaigns[c].status = PAUSED => campaigns'[c].status = PAUSED]_vars

\* C4: when record_ad_spend returns for a campaign of an active brand, the
\* campaign is BUDGET_EXCEEDED exactly if the brand's spend of today or of
\* this month, the new row included, has reached the budget.
C4_RecordEvaluatesAfterRecompute ==
    (ret.op = "record_ad_spend" /\ ret.raised = "none") =>
        LET c == LastCampaign
            b == campaigns[c].brand
        IN  brands[b].is_active =>
                (campaigns[c].status = BUDGET_EXCEEDED
                 <=> \/ BrandDailyTotal(campaigns, adspends, b, now) >= brands[b].daily_budget
                     \/ BrandMonthlyTotal(campaigns, adspends, b, now) >= brands[b].monthly_budget)

\* C4 witness: budget 3, a spend of 2 and a further spend of 2 on the same
\* campaign on the same day have made it BUDGET_EXCEEDED.
C4_Witness ==
    /\ ret.op = "record_ad_spend"
    /\ Len(adspends) = 2
    /\ adspends[1].campaign = 1 /\ adspends[2].campaign = 1
    /\ adspends[1].amount = 2 /\ adspends[2].amount = 2
    /\ adspends[1].date = adspends[2].date
    /\ brands[1].daily_budget = 3
    /\ campaigns[1].status = BUDGET_EXCEEDED

\* C5: record_ad_spend with a negative amount creates no AdSpend row.
C5_NegativeAmountCreatesNoRow ==
    \A i \in 1..Len(adspends) : adspends[i].amount >= 0

\* C6: in every state of the store, record_ad_spend with an id no campaign
\* has raises the not-found ValueError and leaves brands, campaigns and the
\* log as they were.
C6_MissingCampaignChangesNothing ==
    /\ \A amount \in Amounts :
          LET r == record_ad_spend(brands, campaigns, adspends, now,
                                   MissingCampaignId, amount)
          IN  /\ r.raised = "ValueError"
              /\ r.brands = brands
              /\ r.campaigns = campaigns
              /\ r.adspends = adspends
    /\ (ret.op = "record_ad_spend" /\ ret.raised = "none") => Len(adspends) > 0

\* C6 witness: a call with a missing id has just failed on a store that
\* holds spend.
C6_Witness ==
    /\ ret.op = "record_ad_spend"
    /\ ret.raised = "ValueError"
    /\ Len(adspends) > 0
    /\ \E b \in DOMAIN brands : brands[b].monthly_spend > 0

\* C8: the count a dry run reports is the count a real run started from the
\* same state reports (a dry run leaves the state as it was, so the real run
\* is computed on the state the dry run returned in).
C8_DryRunCountIsRealCount ==
    (ret.op = "reset_monthly_budgets" /\ ret.dry_run /\ ret.raised = "none") =>
        ret.reactivated_count
            = reset_monthly_budgets(brands, campaigns, now, FALSE).reactivated_count

\* C9: a dry-run monthly reset leaves every Brand row, every Campaign row and
\* the AdSpend log as they were.
C9_DryRunPersistsNothing ==
    [][(ret'.op = "reset_monthly_budgets" /\ ret'.dry_run)
          => UNCHANGED <<brands, campaigns, adspends>>]_vars

\* C9 witness: a dry run has returned on a store with a BUDGET_EXCEEDED
\* campaign and monthly spend to clear.
C9_Witness ==
    /\ ret.op = "reset_monthly_budgets"
    /\ ret.dry_run
    /\ \E c \in DOMAIN campaigns :
          /\ campaigns[c].status = BUDGET_EXCEEDED
          /\ campaigns[c].monthly_spend > 0
          /\ brands[campaigns[c].brand].monthly_spend > 0

\* a campaign that is BUDGET_EXCEEDED because of its brand's monthly spend
\* alone
ExceededByMonthOnly(bs, cs, t, c) ==
    /\ cs[c].status = BUDGET_EXCEEDED
    /\ bs[cs[c].brand].is_active
    /\ bs[cs[c].brand].monthly_budget > 0
    /\ bs[cs[c].brand].monthly_spend >= bs[cs[c].brand].monthly_budget
    /\ bs[cs[c].brand].daily_spend < bs[cs[c].brand].daily_budget
    /\ is_within_dayparting_window(cs[c], t) = "True"

\* C10: a real monthly reset zeroes monthly_spend of every brand and every
\* campaign, keeps every daily_spend, leaves ACTIVE every campaign that was
\* BUDGET_EXCEEDED by the month alone, and reports the number of campaigns
\* that went from BUDGET_EXCEEDED to ACTIVE.
C10_MonthlyReset ==
    [][(ret'.op = "reset_monthly_budgets" /\ ~ret'.dry_run) =>
          /\ ret'.raised = "none"
          /\ \A b \in DOMAIN brands :
                /\ brands'[b].monthly_spend = 0
                /\ brands'[b].daily_spend = brands[b].daily_spend
          /\ \A c \in DOMAIN campaigns :
                /\ campaigns'[c].monthly_spend = 0
                /\ campaigns'[c].daily_spend = campaigns[c].daily_spend
                /\ ExceededByMonthOnly(brands, campaigns, now, c)
                      => campaigns'[c].status = ACTIVE
          /\ ret'.reactivated_count
                = Cardinality({c \in DOMAIN campaigns :
                                  /\ campaigns[c].status = BUDGET_EXCEEDED
                                  /\ campaigns'[c].status = ACTIVE})]_vars

\* C10 witness: a real reset has just reactivated a campaign.
C10_Witness ==
    /\ ret.op = "reset_monthly_budgets"
    /\ ~ret.dry_run
    /\ ret.reactivated_count >= 1
    /\ \E c \in DOMAIN campaigns :
          campaigns[c].status = ACTIVE /\ campaigns[c].daily_spend > 0

\* the campaigns whose status a step changed into `status`
ChangedInto(status) ==
    {c \in DOMAIN campaigns :
        campaigns'[c].status # campaigns[c].status /\ campaigns'[c].status = status}

\* C12: the status sweep completes and returns a tally that counts the
\* campaigns whose status it changed into ACTIVE, BUDGET_EXCEEDED,
\* DAYPARTING_PAUSED and INACTIVE; it changes no status into PAUSED.
C12_SweepReturnsTally ==
    [][ret'.op = "check_and_update_campaign_statuses" =>
          /\ ret'.raised = "none"
          /\ ret'.tally.activated = Cardinality(ChangedInto(ACTIVE))
          /\ ret'.tally.budget_paused = Cardinality(ChangedInto(BUDGET_EXCEEDED))
          /\ ret'.tally.dayparting_paused = Cardinality(ChangedInto(DAYPARTING_PAUSED))
          /\ ret'.tally.deactivated = Cardinality(ChangedInto(INACTIVE))
          /\ ChangedInto(PAUSED) = {}
          /\ \A c \in DOMAIN campaigns :
                campaigns'[c].status = update_status(brands, campaigns, now, c).status]_vars

\* C16: the totals sweep, the status sweep and the monthly reset, run a
\* second time right after a first run, leave every cached total and every
\* status as the first run left them.
C16_BatchRerunIsSafe ==
    /\ LET first == recalculate_spend_totals(brands, campaigns, adspends, now)
           second == recalculate_spend_totals(first.brands, first.campaigns, adspends, now)
       IN  second.brands = first.brands /\ second.campaigns = first.campaigns
    /\ LET first == check_and_update_campaign_statuses(brands, campaigns, now)
           second == check_and_update_campaign_statuses(brands, first.campaigns, now)
       IN  second.campaigns = first.campaigns
    /\ LET first == reset_monthly_budgets(brands, campaigns, now, FALSE)
           second == reset_monthly_budgets(first.brands, first.campaigns, now, FALSE)
       IN  second.brands = first.brands /\ second.campaigns = first.campaigns

\* C17: a brand whose daily or monthly budget is 0 is exceeded at every
\* spend, so while it is active update_status leaves each of its campaigns
\* BUDGET_EXCEEDED, and no operation raises.
C17_ZeroBudgetAlwaysExceeded ==
    /\ \A b \in DOMAIN brands :
          /\ brands[b].daily_budget = 0 => daily_budget_exceeded(brands[b])
          /\ brands[b].monthly_budget = 0 => monthly_budget_exceeded(brands[b])
    /\ \A c \in DOMAIN campaigns :
          LET brand == brands[campaigns[c].brand]
          IN  (brand.is_active /\ (brand.daily_budget = 0 \/ brand.monthly_budget = 0))
                  => update_status(brands, campaigns, now, c)
                         = [status |-> BUDGET_EXCEEDED, raised |-> "none"]

\* C20: in every state reached by record_ad_spend, the sweeps and the
\* monthly reset, each brand's remaining daily and monthly budget is the
\* larger of 0 and budget - spend, hence never negative.
C20_RemainingNeverNegative ==
    \A b \in DOMAIN brands :
        LET daily == daily_budget_remaining(brands[b])
            monthly == monthly_budget_remaining(brands[b])
        IN  /\ daily >= 0 /\ monthly >= 0
            /\ daily >= brands[b].daily_budget - brands[b].daily_spend
            /\ monthly >= brands[b].monthly_budget - brands[b].monthly_spend
            /\ daily \in {0, brands[b].daily_budget - brands[b].daily_spend}
            /\ monthly \in {0, brands[b].monthly_budget - brands[b].monthly_spend}

\* C20 witness: two rows of 2 on one day have taken brand 1's daily spend
\* to 4, over its budget of 3, and its remaining daily budget is 0.
C20_Witness ==
    /\ Len(adspends) = 2
    /\ brands[1].daily_spend = 4 /\ brands[1].daily_budget = 3
    /\ daily_budget_remaining(brands[1]) = 0
    /\ monthly_budget_remaining(brands[1]) = 0

\* C22: a record_ad_spend call that returns changes, besides the log, only
\* the cached totals and the status of its campaign and the cached totals
\* of that campaign's brand: every other campaign, siblings under the same
\* brand included, and every other brand stay as they were.
C22_RecordFrame ==
    [][(ret'.op = "record_ad_spend" /\ ret'.raised = "none") =>
          LET c == adspends'[Len(adspends')].campaign
          IN  /\ \A d \in DOMAIN campaigns \ {c} : campaigns'[d] = campaigns[d]
              /\ \A b \in DOMAIN brands \ {campaigns[c].brand} : brands'[b] = brands[b]
              /\ campaigns' = [campaigns EXCEPT
                                  ![c].daily_spend = campaigns'[c].daily_spend,
                                  ![c].monthly_spend = campaigns'[c].monthly_spend,
                                  ![c].status = campaigns'[c].status]
              /\ brands' = [brands EXCEPT
                               ![campaigns[c].brand].daily_spend =
                                   brands'[campaigns[c].brand].daily_spend,
                               ![campaigns[c].brand].monthly_spend =
                                   brands'[campaigns[c].brand].monthly_spend]]_vars

\* C22 witness: a spend on campaign 1 has taken brand 1 over its daily
\* budget and made campaign 1 BUDGET_EXCEEDED, while its sibling campaign 2
\* is still ACTIVE.
C22_Witness ==
    /\ ret.op = "record_ad_spend" /\ ret.raised = "none"
    /\ adspends[Len(adspends)].campaign = 1
    /\ brands[1].is_active /\ daily_budget_exceeded(brands[1])
    /\ campaigns[1].status = BUDGET_EXCEEDED
    /\ campaigns[2].status = ACTIVE

---------------------------------------------------------------------------
(* Claims checked under SpecDay.                                           *)

\* the sum of the amounts of the AdSpend rows with index in I
RECURSIVE TotalOf(_)
TotalOf(I) ==
    IF I = {} THEN 0
    ELSE LET i == CHOOSE x \in I : TRUE
         IN  adspends[i].amount + TotalOf(I \ {i})

RowsOfCampaign(c) == {i \in 1..Len(adspends) : adspends[i].campaign = c}
RowsOfBrand(b) == {i \in 1..Len(adspends) : campaigns[adspends[i].campaign].brand = b}

\* C3: after record_ad_spend calls made within one day, every campaign's
\* cached daily and monthly spend is the sum of all its rows, every brand's
\* is the sum of the rows of all its campaigns, and a totals sweep would
\* write the same values.
C3_AggregateCorrectness ==
    /\ \A c \in DOMAIN campaigns :
          /\ campaigns[c].daily_spend = TotalOf(RowsOfCampaign(c))
          /\ campaigns[c].monthly_spend = TotalOf(RowsOfCampaign(c))
    /\ \A b \in DOMAIN brands :
          /\ brands[b].daily_spend = TotalOf(RowsOfBrand(b))
          /\ brands[b].monthly_spend = TotalOf(RowsOfBrand(b))
    /\ LET r == recalculate_spend_totals(brands, campaigns, adspends, now)
       IN  r.brands = brands /\ r.campaigns = campaigns

\* C3 witness: two campaigns of brand 1 have one row of 2 each and the
\* brand's cached spend is 4.
C3_Witness ==
    /\ Len(adspends) = 2
    /\ adspends[1].campaign = 1 /\ adspends[1].amount = 2
    /\ adspends[2].campaign = 2 /\ adspends[2].amount = 2
    /\ campaigns[1].daily_spend = 2 /\ campaigns[2].monthly_spend = 2
    /\ brands[1].daily_spend = 4 /\ brands[1].monthly_spend = 4

---------------------------------------------------------------------------
(* Claims checked under SpecEval.                                          *)

\* "HH:MM" as minutes since midnight
MinutesOf(hhmm) == (hhmm[1] * 10 + hhmm[2]) * 60 + hhmm[4] * 10 + hhmm[5]

\* the windows of campaign c for the current weekday
WindowsToday(c) ==
    IF CurrentDay(now) \in DOMAIN campaigns[c].dayparting_schedule
    THEN campaigns[c].dayparting_schedule[CurrentDay(now)]
    ELSE <<>>

OutsideEveryWindow(c) ==
    \A i \in 1..Len(WindowsToday(c)) :
        \/ now.minute < MinutesOf(WindowsToday(c)[i].start)
        \/ now.minute > MinutesOf(WindowsToday(c)[i].end)

BudgetExceeded(b) ==
    \/ brands[b].daily_spend >= brands[b].daily_budget
    \/ brands[b].monthly_spend >= brands[b].monthly_budget

StatusByPrecedence(c) ==
    IF ~brands[campaigns[c].brand].is_active THEN INACTIVE
    ELSE IF BudgetExceeded(campaigns[c].brand) THEN BUDGET_EXCEEDED
    ELSE IF campaigns[c].dayparting_enabled /\ OutsideEveryWindow(c)
    THEN DAYPARTING_PAUSED
    ELSE IF campaigns[c].status \in {BUDGET_EXCEEDED, DAYPARTING_PAUSED} THEN ACTIVE
    ELSE campaigns[c].status

\* C1: update_status leaves on the campaign the status given by strict
\* precedence: INACTIVE for an inactive brand, else BUDGET_EXCEEDED for an
\* exceeded daily or monthly budget, else DAYPARTING_PAUSED outside every
\* window, else ACTIVE from BUDGET_EXCEEDED or DAYPARTING_PAUSED, else the
\* status it had.
C1_StatusByPrecedence ==
    [][\A c \in DOMAIN campaigns :
          EvaluateCampaign(c) =>
              /\ campaigns'[c].status = StatusByPrecedence(c)
              /\ ret'.raised = "none"]_vars

\* C1 witness: campaign 1 has been evaluated to INACTIVE with its brand
\* inactive, the budget exceeded and dayparting closed.
C1_Witness ==
    /\ ret.op = "update_status"
    /\ ~brands[1].is_active
    /\ BudgetExceeded(1)
    /\ campaigns[1].dayparting_enabled /\ OutsideEveryWindow(1)
    /\ campaigns[1].status = INACTIVE

---------------------------------------------------------------------------
(* Claims checked under SpecConc.                                          *)

\* C7: once both concurrent record_ad_spend calls have completed, the
\* cached daily and monthly spend of every campaign and of the brand equal
\* the sum of all recorded rows, under every interleaving.
C7_FinalTotalsAreSums ==
    (\A p \in Procs : procs[p].pc = "done") =>
        /\ \A c \in DOMAIN campaigns :
              /\ campaigns[c].daily_spend = TotalOf(RowsOfCampaign(c))
              /\ campaigns[c].monthly_spend = TotalOf(RowsOfCampaign(c))
        /\ \A b \in DOMAIN brands :
              /\ brands[b].daily_spend = TotalOf(RowsOfBrand(b))
              /\ brands[b].monthly_spend = TotalOf(RowsOfBrand(b))

---------------------------------------------------------------------------
(* Claims checked under SpecJobs.                                          *)

\* C11: no operation deletes an AdSpend row or changes its amount, campaign
\* or date; the log grows only by a record_ad_spend call that returns, and
\* then by exactly one row.
C11_LogIsAppendOnly ==
    [][/\ Len(adspends') >= Len(adspends)
       /\ SubSeq(adspends', 1, Len(adspends)) = adspends
       /\ adspends' # adspends =>
              /\ ret'.op = "record_ad_spend" /\ ret'.raised = "none"
              /\ Len(adspends') = Len(adspends) + 1
       /\ (ret'.op = "record_ad_spend" /\ ret'.raised = "none") =>
              Len(adspends') = Len(adspends) + 1]_vars

\* C11 witness: a real monthly reset has zeroed the cached monthly spend and
\* the two rows recorded before it are still in the log.
C11_Witness ==
    /\ ret.op = "reset_monthly_budgets" /\ ~ret.dry_run
    /\ Len(adspends) = 2
    /\ adspends[1].amount = 2 /\ adspends[2].amount = 2
    /\ \A b \in DOMAIN brands : brands[b].monthly_spend = 0

\* the campaigns after update_status() on campaign c
Evaluated(cs, c) ==
    [cs EXCEPT ![c].status = update_status(brands, cs, now, c).status]

\* C15: update_status applied to a campaign a second time, with brands,
\* spend, schedule and clock as they were, leaves the status the first
\* application left.
C15_EvaluateIsIdempotent ==
    \A c \in DOMAIN campaigns :
        Evaluated(Evaluated(campaigns, c), c) = Evaluated(campaigns, c)

\* C15 witness: campaign 1 is BUDGET_EXCEEDED or DAYPARTING_PAUSED and the
\* first application changes it to ACTIVE.
C15_Witness ==
    /\ campaigns[1].status \in {BUDGET_EXCEEDED, DAYPARTING_PAUSED}
    /\ campaigns[1].dayparting_enabled
    /\ Evaluated(campaigns, 1)[1].status = ACTIVE

\* C18: should_be_active writes nothing and returns true exactly if the
\* brand is active, neither brand budget is exceeded, dayparting is disabled
\* or now is within a window, and the status is neither INACTIVE nor PAUSED.
C18_ShouldBeActive ==
    [][ret'.op = "should_be_active" =>
          /\ UNCHANGED <<brands, campaigns, adspends>>
          /\ ret'.raised = "none"
          /\ ret'.value \in {"True", "False"}
          /\ ret'.value = "True" <=>
                LET c == ret'.campaign
                IN  /\ brands[campaigns[c].brand].is_active
                    /\ ~BudgetExceeded(campaigns[c].brand)
                    /\ ~campaigns[c].dayparting_enabled \/ ~OutsideEveryWindow(c)
                    /\ campaigns[c].status \notin {INACTIVE, PAUSED}]_vars

\* C18 witness: should_be_active has returned false for campaign 1, which is
\* PAUSED with its brand active, within budget and inside a window.
C18_Witness ==
    /\ ret.op = "should_be_active" /\ ret.campaign = 1 /\ ret.value = "False"
    /\ campaigns[1].status = PAUSED
    /\ brands[1].is_active /\ ~BudgetExceeded(1)
    /\ campaigns[1].dayparting_enabled /\ ~OutsideEveryWindow(1)

\* C19: is_within_dayparting_window returns true when dayparting is
\* disabled; otherwise it returns true exactly if some window listed for the
\* current weekday has start <= now <= end, both bounds included, whatever
\* the order or overlap of the windows, and false when the weekday has no
\* entry.
C19_WithinWindow ==
    [][ret'.op = "is_within_dayparting_window" =>
          LET c == ret'.campaign
          IN  /\ ret'.raised = "none"
              /\ ret'.value \in {"True", "False"}
              /\ ~campaigns[c].dayparting_enabled => ret'.value = "True"
              /\ campaigns[c].dayparting_enabled =>
                    (ret'.value = "True" <=>
                        \E i \in 1..Len(WindowsToday(c)) :
                            /\ MinutesOf(WindowsToday(c)[i].start) <= now.minute
                            /\ now.minute <= MinutesOf(WindowsToday(c)[i].end))
              /\ (campaigns[c].dayparting_enabled
                  /\ CurrentDay(now) \notin DOMAIN campaigns[c].dayparting_schedule)
                     => ret'.value = "False"]_vars

\* C19 witness: at 17:00 on a monday the evaluator has returned true for
\* campaign 1, whose window of the day is 09:00-17:00.
C19_Witness ==
    /\ ret.op = "is_within_dayparting_window" /\ ret.campaign = 1 /\ ret.value = "True"
    /\ campaigns[1].dayparting_enabled
    /\ campaigns[1].dayparting_schedule = OfficeHours
    /\ CurrentDay(now) = "monday"
    /\ now.minute = 17 * 60

---------------------------------------------------------------------------
(* Claims checked under SpecSchedule.                                      *)

\* the windows of campaign c for the current weekday that have both a start
\* and an end
WellFormedWindowsToday(c) ==
    SelectSeq(WindowsToday(c), LAMBDA w : {"start", "end"} \subseteq DOMAIN w)

\* C13: on a missing or malformed schedule the dayparting evaluator does
\* not raise: a window lacking start or end counts as no window, so a
\* campaign with dayparting enabled and no well-formed window for today is
\* closed, and update_status and the status sweep do not fail on it.
C13_EvaluatorNeverRaises ==
    /\ \A c \in DOMAIN campaigns :
          /\ is_within_dayparting_window(campaigns[c], now) \in {"True", "False"}
          /\ (campaigns[c].dayparting_enabled /\ WellFormedWindowsToday(c) = <<>>)
                 => is_within_dayparting_window(campaigns[c], now) = "False"
    /\ ret.raised # "KeyError"

---------------------------------------------------------------------------
(* Claims checked under SpecAlerts.                                        *)

\* the alerts of one type the last scan returned for brand b
AlertsFor(alerts, type, b) ==
    SelectSeq(alerts, LAMBDA a : a.type = type /\ a.brand = b)

\* C14: the alert scan returns without raising and writes nothing; for each
\* brand it returns one daily_budget_warning exactly if the brand is active
\* and daily_spend is at least nine tenths of daily_budget, one
\* monthly_budget_warning likewise, each carrying the brand's spend and
\* budget, and a percent used of 0 when the budget is 0.
C14_AlertScan ==
    [][ret'.op = "monitor_budget_limits" =>
          /\ UNCHANGED <<brands, campaigns, adspends>>
          /\ ret'.raised = "none"
          /\ \A b \in DOMAIN brands :
                LET daily == AlertsFor(ret'.alerts, "daily_budget_warning", b)
                    monthly == AlertsFor(ret'.alerts, "monthly_budget_warning", b)
                IN  /\ Len(daily) = IF brands[b].is_active
                                       /\ 10 * brands[b].daily_spend >= 9 * brands[b].daily_budget
                                    THEN 1 ELSE 0
                    /\ Len(monthly) = IF brands[b].is_active
                                         /\ 10 * brands[b].monthly_spend >= 9 * brands[b].monthly_budget
                                      THEN 1 ELSE 0
                    /\ \A i \in 1..Len(daily) :
                          /\ daily[i].spend = brands[b].daily_spend
                          /\ daily[i].budget = brands[b].daily_budget
                          /\ daily[i].budget = 0 => daily[i].percent_used[1] = 0
                          /\ daily[i].budget > 0 =>
                                daily[i].percent_used[1] * daily[i].budget
                                    = 100 * daily[i].spend * daily[i].percent_used[2]
                    /\ \A i \in 1..Len(monthly) :
                          /\ monthly[i].spend = brands[b].monthly_spend
                          /\ monthly[i].budget = brands[b].monthly_budget
                          /\ monthly[i].budget = 0 => monthly[i].percent_used[1] = 0
                          /\ monthly[i].budget > 0 =>
                                monthly[i].percent_used[1] * monthly[i].budget
                                    = 100 * monthly[i].spend * monthly[i].percent_used[2]
          /\ Len(ret'.alerts) <= 2 * Cardinality(DOMAIN brands)]_vars

\* C14 witness: a scan has returned a daily warning for brand 1 at budget 0
\* and spend 0 with 0 percent used, and a monthly warning at 9 of 10.
C14_Witness ==
    /\ ret.op = "monitor_budget_limits"
    /\ \E i, j \in 1..Len(ret.alerts) :
          /\ ret.alerts[i].type = "daily_budget_warning"
          /\ ret.alerts[i].brand = 1
          /\ ret.alerts[i].budget = 0 /\ ret.alerts[i].spend = 0
          /\ ret.alerts[i].percent_used = <<0, 1>>
          /\ ret.alerts[j].type = "monthly_budget_warning"
          /\ ret.alerts[j].brand = 1
          /\ ret.alerts[j].budget = 10 /\ ret.alerts[j].spend = 9

---------------------------------------------------------------------------
(* Claims checked under SpecBrand.                                         *)

\* nothing holds campaign c back: its brand is active and within both
\* budgets, and dayparting is disabled or open
AllowsActive(c) ==
    /\ brands[campaigns[c].brand].is_active
    /\ ~BudgetExceeded(campaigns[c].brand)
    /\ ~campaigns[c].dayparting_enabled \/ ~OutsideEveryWindow(c)

\* C21: update_status leaves an INACTIVE campaign INACTIVE when nothing
\* holds the campaign back, so no evaluation, sweep or spend takes a campaign
\* from INACTIVE to anything but BUDGET_EXCEEDED or DAYPARTING_PAUSED, and
\* with the brand reactivated and nothing holding the campaign back a step
\* that leaves brands and clock alone keeps it INACTIVE.
C21_InactiveIsNotCleared ==
    [][\A c \in DOMAIN campaigns :
          campaigns[c].status = INACTIVE =>
              /\ campaigns'[c].status \in {INACTIVE, BUDGET_EXCEEDED, DAYPARTING_PAUSED}
              /\ AllowsActive(c) =>
                    /\ update_status(brands, campaigns, now, c)
                           = [status |-> INACTIVE, raised |-> "none"]
                    /\ (brands' = brands /\ now' = now) => campaigns'[c].status = INACTIVE]_vars

\* C21 witness: brand 1 is active again and within budget, its campaign 2
\* is still INACTIVE, and a status sweep has just completed.
C21_Witness ==
    /\ ret.op = "check_and_update_campaign_statuses" /\ ret.raised = "none"
    /\ campaigns[2].status = INACTIVE
    /\ AllowsActive(2)

==========================================================================
